---------------------------- MODULE Spec2Model ----------------------------
(***************************************************************************)
(* A model of src/pygraph.py: class Graph, an adjacency-list graph that is *)
(* directed or undirected, with node/edge mutation, degree queries and     *)
(* three traversals.                                                       *)
(*                                                                         *)
(* The state is the object's two fields (adjacency_list, directed) plus    *)
(* last, the caller's view of the call just made: which method, with which *)
(* arguments, and what it raised or returned.  Every method runs to        *)
(* completion in one step (the class has no suspension points); the caller *)
(* then takes the result (Resume) and is free to make the next call.       *)
(* Where the run of a loop matters, SpecSteps runs the three traversals one *)
(* iteration of their while loop at a time, with the loop's locals in      *)
(* frame; everywhere else frame stays NoFrame.                             *)
(*                                                                         *)
(* adjacency_list is a Python dict from node to list of nodes.  It is      *)
(* modelled as a TLA+ function whose DOMAIN is the set of keys and whose   *)
(* values are sequences.  The dict's key order is observable only through  *)
(* the loops of remove_node and indegree, whose results do not depend on   *)
(* it, so it is not part of the state.                                     *)
(***************************************************************************)
EXTENDS Integers, Sequences, FiniteSets, TLC

\* Bounds of the model.
NumNodes == 3
MaxCtorEdges == 2
MaxEdges == 3

Node == 1..NumNodes
Edge == Node \X Node

VARIABLES adjacency_list, directed, last, frame

vars == <<adjacency_list, directed, last, frame>>

-----------------------------------------------------------------------------
(* Python list primitives *)

\* x in lst
In(x, lst) == \E i \in 1..Len(lst) : lst[i] = x

\* lst.index(x), for x in lst: the first position holding x
IndexOf(x, lst) == CHOOSE i \in 1..Len(lst) : lst[i] = x /\ \A j \in 1..(i-1) : lst[j] # x

\* lst.remove(x), for x in lst: drops the first occurrence only
ListRemove(lst, x) ==
    LET i == IndexOf(x, lst)
    IN  [j \in 1..(Len(lst) - 1) |-> IF j < i THEN lst[j] ELSE lst[j + 1]]

\* reversed(lst)
Reversed(lst) == [j \in 1..Len(lst) |-> lst[Len(lst) + 1 - j]]

\* dict.get(key, [])
DictGet(adj, key) == IF key \in DOMAIN adj THEN adj[key] ELSE <<>>

\* What a call gives back: a raised exception (class and message text), or a
\* returned value.  A return is a sequence holding the value; None is <<>>.
None == <<>>
Returned(v) == <<v>>
NoException == "none"
NodeMessage == "Node {node} not in graph"
EdgeMessage == "Edge {edge} not in graph"
PathMessage == "Start or end node not in graph"

Return(op, args, v) ==
    [op |-> op, args |-> args, exc |-> NoException, msg |-> "", ret |-> v]
Raise(op, args, cls, msg) ==
    [op |-> op, args |-> args, exc |-> cls, msg |-> msg, ret |-> None]

-----------------------------------------------------------------------------
(* Graph methods as functions of the dict *)

has_node(adj, node) == node \in DOMAIN adj

has_edge(adj, node1, node2) ==
    /\ node1 \in DOMAIN adj
    /\ node2 \in DOMAIN adj
    /\ In(node2, adj[node1])

add_node(adj, node) ==
    IF node \notin DOMAIN adj THEN adj @@ (node :> <<>>) ELSE adj

\* add_edge without its two "not in" tests: it appends every time
add_edge_always_appends(adj, dir, node1, node2) ==
    LET a2 == add_node(add_node(adj, node1), node2)
        a3 == [a2 EXCEPT ![node1] = Append(@, node2)]
    IN  IF ~dir THEN [a3 EXCEPT ![node2] = Append(@, node1)] ELSE a3

\* add_edge without its test of self.directed: it mirrors in both modes
add_edge_always_mirrors(adj, dir, node1, node2) ==
    LET a2 == add_node(add_node(adj, node1), node2)
        a3 == IF ~In(node2, a2[node1])
              THEN [a2 EXCEPT ![node1] = Append(@, node2)]
              ELSE a2
    IN  IF ~In(node1, a3[node2])
        THEN [a3 EXCEPT ![node2] = Append(@, node1)]
        ELSE a3

add_edge(adj, dir, node1, node2) ==
    LET a1 == add_node(adj, node1)
        a2 == add_node(a1, node2)
        a3 == IF ~In(node2, a2[node1])
              THEN [a2 EXCEPT ![node1] = Append(@, node2)]
              ELSE a2
    IN  IF ~dir /\ ~In(node1, a3[node2])
        THEN [a3 EXCEPT ![node2] = Append(@, node1)]
        ELSE a3

\* __init__ whose loop runs over the edges from the last to the first
RECURSIVE init_edges_backwards(_, _, _)
init_edges_backwards(adj, dir, edges) ==
    IF edges = <<>> THEN adj
    ELSE init_edges_backwards(
             add_edge(adj, dir, edges[Len(edges)][1], edges[Len(edges)][2]),
             dir, SubSeq(edges, 1, Len(edges) - 1))

\* __init__: the empty dict, then add_edge on each edge in order
RECURSIVE init_edges(_, _, _)
init_edges(adj, dir, edges) ==
    IF edges = <<>> THEN adj
    ELSE init_edges(add_edge(adj, dir, Head(edges)[1], Head(edges)[2]), dir, Tail(edges))

EmptyDict == [k \in {} |-> <<>>]

\* What a mutating method leaves behind: the dict, and whether it raised
Done(adj) == [adj |-> adj, raised |-> FALSE]
Raised(adj) == [adj |-> adj, raised |-> TRUE]

\* remove_node without its loop: only the del of the key
remove_node_only_deletes_key(adj, node) ==
    IF node \notin DOMAIN adj THEN Raised(adj)
    ELSE Done([k \in (DOMAIN adj) \ {node} |-> adj[k]])

\* remove_node that visits only the lists of the node's own neighbours, as
\* if every edge were mirrored: a directed predecessor keeps the node
remove_node_visits_neighbors_only(adj, node) ==
    IF node \notin DOMAIN adj THEN Raised(adj)
    ELSE Done([k \in (DOMAIN adj) \ {node} |->
                  IF In(k, adj[node]) /\ In(node, adj[k])
                  THEN ListRemove(adj[k], node)
                  ELSE adj[k]])

\* remove_node: the check; then the loop over every list (the node's own
\* included), each losing the node once; then the del of the key
remove_node(adj, node) ==
    IF node \notin DOMAIN adj THEN Raised(adj)
    ELSE Done([k \in (DOMAIN adj) \ {node} |->
                 IF In(node, adj[k]) THEN ListRemove(adj[k], node) ELSE adj[k]])

\* remove_edge without its second remove: node2's list keeps node1
remove_edge_one_sided(adj, dir, node1, node2) ==
    IF \/ node1 \notin DOMAIN adj
       \/ node2 \notin DOMAIN adj
       \/ ~In(node2, adj[node1])
    THEN Raised(adj)
    ELSE Done([adj EXCEPT ![node1] = ListRemove(@, node2)])

\* remove_edge on a dict that makes a key of whatever is looked up (a
\* defaultdict): the failing check leaves node1 behind as a new node
remove_edge_lookup_inserts(adj, dir, node1, node2) ==
    IF \/ node1 \notin DOMAIN adj
       \/ node2 \notin DOMAIN adj
       \/ ~In(node2, adj[node1])
    THEN Raised(add_node(adj, node1))
    ELSE LET a1 == [adj EXCEPT ![node1] = ListRemove(@, node2)]
         IN  IF ~dir /\ In(node1, a1[node2])
             THEN Done([a1 EXCEPT ![node2] = ListRemove(@, node1)])
             ELSE Done(a1)

\* remove_edge whose check, in either mode, also wants node1 in node2's list
remove_edge_checks_both_ways(adj, dir, node1, node2) ==
    IF \/ node1 \notin DOMAIN adj
       \/ node2 \notin DOMAIN adj
       \/ ~In(node2, adj[node1])
       \/ ~In(node1, adj[node2])
    THEN Raised(adj)
    ELSE LET a1 == [adj EXCEPT ![node1] = ListRemove(@, node2)]
         IN  IF ~dir /\ In(node1, a1[node2])
             THEN Done([a1 EXCEPT ![node2] = ListRemove(@, node1)])
             ELSE Done(a1)

\* remove_edge whose undirected half calls list.remove without the 'in'
\* test: on a self-loop the entry is already gone and list.remove raises
remove_edge_mirror_untested(adj, dir, node1, node2) ==
    IF \/ node1 \notin DOMAIN adj
       \/ node2 \notin DOMAIN adj
       \/ ~In(node2, adj[node1])
    THEN Raised(adj)
    ELSE LET a1 == [adj EXCEPT ![node1] = ListRemove(@, node2)]
         IN  IF dir THEN Done(a1)
             ELSE IF In(node1, a1[node2])
                  THEN Done([a1 EXCEPT ![node2] = ListRemove(@, node1)])
                  ELSE Raised(a1)

\* remove_edge: the check on node1, node2 and node1's list; then the remove
\* from node1's list and, if undirected and present, from node2's
remove_edge(adj, dir, node1, node2) ==
    IF \/ node1 \notin DOMAIN adj
       \/ node2 \notin DOMAIN adj
       \/ ~In(node2, adj[node1])
    THEN Raised(adj)
    ELSE LET a1 == [adj EXCEPT ![node1] = ListRemove(@, node2)]
         IN  IF ~dir /\ In(node1, a1[node2])
             THEN Done([a1 EXCEPT ![node2] = ListRemove(@, node1)])
             ELSE Done(a1)

\* indegree whose loop skips the node's own list: a self-loop is not counted
indegree_skips_own_list(adj, node) ==
    Cardinality({k \in (DOMAIN adj) \ {node} : In(node, adj[k])})

\* indegree: whether it raises, and what it returns: the number of lists
\* that hold the node
indegree_raises(adj, node) == node \notin DOMAIN adj
indegree(adj, node) == Cardinality({k \in DOMAIN adj : In(node, adj[k])})

\* outdegree: whether it raises, and what it returns
outdegree_raises(adj, node) == node \notin DOMAIN adj
outdegree(adj, node) == Len(adj[node])

\* get_neighbors without its check: the .get(node, []) of its return
\* statement answers for an absent node
get_neighbors_never_raises(adj, node) == FALSE

\* get_neighbors: whether it raises, and what it returns
get_neighbors_raises(adj, node) == node \notin DOMAIN adj
get_neighbors(adj, node) == DictGet(adj, node)

\* Whether depth_first_search, breadth_first_search, find_shortest_path raise
depth_first_search_raises(adj, start) == start \notin DOMAIN adj
breadth_first_search_raises(adj, start) == start \notin DOMAIN adj
find_shortest_path_raises(adj, start, end) ==
    start \notin DOMAIN adj \/ end \notin DOMAIN adj

\* The exception class of every raise statement of the file
RaisedClass == "ValueError"

-----------------------------------------------------------------------------
(* Traversals *)

\* The neighbours of current that are not in visited, in list order: what one
\* run of the for loop of a traversal pushes or enqueues for current
Unvisited(nbrs, visited) == SelectSeq(nbrs, LAMBDA n : ~In(n, visited))

\* depth_first_search's while loop without reversed(): the neighbours are
\* pushed in list order, so the last listed is explored first
RECURSIVE dfs_loop_pushes_in_order(_, _, _)
dfs_loop_pushes_in_order(adj, visited, stack) ==
    IF stack = <<>> THEN visited
    ELSE LET current == stack[Len(stack)]
             rest    == SubSeq(stack, 1, Len(stack) - 1)
         IN  IF ~In(current, visited)
             THEN LET visited2 == Append(visited, current)
                  IN  dfs_loop_pushes_in_order(adj, visited2,
                               rest \o Unvisited(DictGet(adj, current), visited2))
             ELSE dfs_loop_pushes_in_order(adj, visited, rest)

\* depth_first_search's while loop: stack.pop() takes the last element
RECURSIVE dfs_loop(_, _, _)
dfs_loop(adj, visited, stack) ==
    IF stack = <<>> THEN visited
    ELSE LET current == stack[Len(stack)]
             rest    == SubSeq(stack, 1, Len(stack) - 1)
         IN  IF ~In(current, visited)
             THEN LET visited2 == Append(visited, current)
                  IN  dfs_loop(adj, visited2,
                               rest \o Unvisited(Reversed(DictGet(adj, current)), visited2))
             ELSE dfs_loop(adj, visited, rest)

\* depth_first_search past its check
depth_first_search(adj, start) == dfs_loop(adj, <<>>, <<start>>)

\* breadth_first_search's while loop with pop() for popleft(): it takes the
\* last element of the queue
RECURSIVE bfs_loop_pops_right(_, _, _)
bfs_loop_pops_right(adj, visited, queue) ==
    IF queue = <<>> THEN visited
    ELSE LET current == queue[Len(queue)]
             rest    == SubSeq(queue, 1, Len(queue) - 1)
         IN  IF ~In(current, visited)
             THEN LET visited2 == Append(visited, current)
                  IN  bfs_loop_pops_right(adj, visited2,
                               rest \o Unvisited(DictGet(adj, current), visited2))
             ELSE bfs_loop_pops_right(adj, visited, rest)

\* breadth_first_search's while loop: queue.popleft() takes the first element
RECURSIVE bfs_loop(_, _, _)
bfs_loop(adj, visited, queue) ==
    IF queue = <<>> THEN visited
    ELSE LET current == Head(queue)
             rest    == Tail(queue)
         IN  IF ~In(current, visited)
             THEN LET visited2 == Append(visited, current)
                  IN  bfs_loop(adj, visited2,
                               rest \o Unvisited(DictGet(adj, current), visited2))
             ELSE bfs_loop(adj, visited, rest)

\* breadth_first_search past its check
breadth_first_search(adj, start) == bfs_loop(adj, <<>>, <<start>>)

\* find_shortest_path's for loop taking the neighbours from the last to the
\* first
RECURSIVE fsp_scan_backwards(_, _, _, _)
fsp_scan_backwards(nbrs, path, visited, queue) ==
    IF nbrs = <<>> THEN [visited |-> visited, queue |-> queue]
    ELSE LET neighbor == nbrs[Len(nbrs)]
             others   == SubSeq(nbrs, 1, Len(nbrs) - 1)
         IN  IF neighbor \notin visited
             THEN fsp_scan_backwards(others, path, visited \cup {neighbor},
                           Append(queue, <<neighbor, Append(path, neighbor)>>))
             ELSE fsp_scan_backwards(others, path, visited, queue)

\* find_shortest_path's for loop over the neighbours of the dequeued node:
\* visited is a set that grows inside the loop, queue holds <<node, path>>
RECURSIVE fsp_scan(_, _, _, _)
fsp_scan(nbrs, path, visited, queue) ==
    IF nbrs = <<>> THEN [visited |-> visited, queue |-> queue]
    ELSE LET neighbor == Head(nbrs)
         IN  IF neighbor \notin visited
             THEN fsp_scan(Tail(nbrs), path, visited \cup {neighbor},
                           Append(queue, <<neighbor, Append(path, neighbor)>>))
             ELSE fsp_scan(Tail(nbrs), path, visited, queue)

\* find_shortest_path's while loop; gives Returned(path), or None
RECURSIVE fsp_loop(_, _, _, _)
fsp_loop(adj, end, visited, queue) ==
    IF queue = <<>> THEN None
    ELSE LET current == Head(queue)[1]
             path    == Head(queue)[2]
         IN  IF current = end THEN Returned(path)
             ELSE LET r == fsp_scan(DictGet(adj, current), path, visited, Tail(queue))
                  IN  fsp_loop(adj, end, r.visited, r.queue)

\* find_shortest_path written as the depth-first traversal is: a stack of
\* <<node, path>>, the last element popped, a node marked when popped
RECURSIVE fsp_stack_loop(_, _, _, _)
fsp_stack_loop(adj, end, visited, stack) ==
    IF stack = <<>> THEN None
    ELSE LET current == stack[Len(stack)][1]
             path    == stack[Len(stack)][2]
             rest    == SubSeq(stack, 1, Len(stack) - 1)
         IN  IF current = end THEN Returned(path)
             ELSE IF current \in visited THEN fsp_stack_loop(adj, end, visited, rest)
             ELSE LET visited2 == visited \cup {current}
                      pushed   == SelectSeq(Reversed(DictGet(adj, current)),
                                            LAMBDA n : n \notin visited2)
                  IN  fsp_stack_loop(adj, end, visited2,
                          rest \o [i \in 1..Len(pushed) |->
                                      <<pushed[i], Append(path, pushed[i])>>])

find_shortest_path_depth_first(adj, start, end) ==
    fsp_stack_loop(adj, end, {}, << <<start, <<start>> >> >>)

\* find_shortest_path with the test for end made on the neighbours as they
\* are discovered instead of on the node dequeued
RECURSIVE fsp_loop_tests_neighbors(_, _, _, _)
fsp_loop_tests_neighbors(adj, end, visited, queue) ==
    IF queue = <<>> THEN None
    ELSE LET current == Head(queue)[1]
             path    == Head(queue)[2]
             r       == fsp_scan(DictGet(adj, current), path, visited, Tail(queue))
         IN  IF In(end, DictGet(adj, current)) /\ end \notin visited
             THEN Returned(Append(path, end))
             ELSE fsp_loop_tests_neighbors(adj, end, r.visited, r.queue)

find_shortest_path_tests_neighbors(adj, start, end) ==
    fsp_loop_tests_neighbors(adj, end, {start}, << <<start, <<start>> >> >>)

\* find_shortest_path past its check
find_shortest_path(adj, start, end) ==
    fsp_loop(adj, end, {start}, << <<start, <<start>> >> >>)

-----------------------------------------------------------------------------
(* Construction *)

EdgeLists == UNION {[1..n -> Edge] : n \in 0..MaxCtorEdges}

\* The number of edges of the graph: ordered pairs if directed, unordered
\* pairs (a self-loop is the pair {a}) if not.  Only the bound on the size of
\* the graphs explored uses it.
EdgeCount(adj, dir) ==
    LET pairs == {e \in (DOMAIN adj) \X (DOMAIN adj) : In(e[2], adj[e[1]])}
    IN  IF dir THEN Cardinality(pairs)
        ELSE Cardinality({{e[1], e[2]} : e \in pairs})

\* No call is outstanding: the caller has taken the result of the last one
Idle == [op |-> "idle", args |-> <<>>, exc |-> NoException, msg |-> "", ret |-> None]
Ready == last = Idle

\* The locals of the traversal that is running, if one is: pc names the
\* method, visited and stack are depth_first_search's, visited and queue
\* breadth_first_search's, fsp_visited and fsp_queue the set and the deque of
\* <<node, path>> of find_shortest_path
NoFrame ==
    [pc |-> "none", args |-> <<>>, visited |-> <<>>, stack |-> <<>>,
     queue |-> <<>>, fsp_visited |-> {}, fsp_queue |-> <<>>]

Init ==
    \E edges \in EdgeLists, d \in BOOLEAN :
        /\ directed = d
        /\ adjacency_list = init_edges(EmptyDict, d, edges)
        /\ last = Return("__init__", edges, None)
        /\ frame = NoFrame

AddNode(node) ==
    /\ Ready
    /\ adjacency_list' = add_node(adjacency_list, node)
    /\ last' = Return("add_node", <<node>>, None)
    /\ UNCHANGED <<directed, frame>>

AddEdge(node1, node2) ==
    /\ Ready
    /\ EdgeCount(add_edge(adjacency_list, directed, node1, node2), directed) <= MaxEdges
    /\ adjacency_list' = add_edge(adjacency_list, directed, node1, node2)
    /\ last' = Return("add_edge", <<node1, node2>>, None)
    /\ UNCHANGED <<directed, frame>>

RemoveNode(node) ==
    /\ Ready
    /\ LET r == remove_node(adjacency_list, node)
       IN  /\ adjacency_list' = r.adj
           /\ last' = IF r.raised
                      THEN Raise("remove_node", <<node>>, RaisedClass, NodeMessage)
                      ELSE Return("remove_node", <<node>>, None)
    /\ UNCHANGED <<directed, frame>>

RemoveEdge(node1, node2) ==
    /\ Ready
    /\ LET r == remove_edge(adjacency_list, directed, node1, node2)
       IN  /\ adjacency_list' = r.adj
           /\ last' = IF r.raised
                      THEN Raise("remove_edge", <<node1, node2>>, RaisedClass, EdgeMessage)
                      ELSE Return("remove_edge", <<node1, node2>>, None)
    /\ UNCHANGED <<directed, frame>>

Mutation ==
    \/ \E node \in Node : AddNode(node)
    \/ \E node1, node2 \in Node : AddEdge(node1, node2)
    \/ \E node \in Node : RemoveNode(node)
    \/ \E node1, node2 \in Node : RemoveEdge(node1, node2)

(* Queries: they leave the graph as it is and record what they gave back *)

HasNode(node) ==
    /\ Ready
    /\ last' = Return("has_node", <<node>>, Returned(has_node(adjacency_list, node)))
    /\ UNCHANGED <<adjacency_list, directed, frame>>

HasEdge(node1, node2) ==
    /\ Ready
    /\ last' = Return("has_edge", <<node1, node2>>,
                      Returned(has_edge(adjacency_list, node1, node2)))
    /\ UNCHANGED <<adjacency_list, directed, frame>>

Indegree(node) ==
    /\ Ready
    /\ last' = IF indegree_raises(adjacency_list, node)
               THEN Raise("indegree", <<node>>, RaisedClass, NodeMessage)
               ELSE Return("indegree", <<node>>, Returned(indegree(adjacency_list, node)))
    /\ UNCHANGED <<adjacency_list, directed, frame>>

Outdegree(node) ==
    /\ Ready
    /\ last' = IF outdegree_raises(adjacency_list, node)
               THEN Raise("outdegree", <<node>>, RaisedClass, NodeMessage)
               ELSE Return("outdegree", <<node>>, Returned(outdegree(adjacency_list, node)))
    /\ UNCHANGED <<adjacency_list, directed, frame>>

GetNeighbors(node) ==
    /\ Ready
    /\ last' = IF get_neighbors_raises(adjacency_list, node)
               THEN Raise("get_neighbors", <<node>>, RaisedClass, NodeMessage)
               ELSE Return("get_neighbors", <<node>>,
                           Returned(get_neighbors(adjacency_list, node)))
    /\ UNCHANGED <<adjacency_list, directed, frame>>

DepthFirstSearch(start) ==
    /\ Ready
    /\ last' = IF depth_first_search_raises(adjacency_list, start)
               THEN Raise("depth_first_search", <<start>>, RaisedClass, NodeMessage)
               ELSE Return("depth_first_search", <<start>>,
                           Returned(depth_first_search(adjacency_list, start)))
    /\ UNCHANGED <<adjacency_list, directed, frame>>

BreadthFirstSearch(start) ==
    /\ Ready
    /\ last' = IF breadth_first_search_raises(adjacency_list, start)
               THEN Raise("breadth_first_search", <<start>>, RaisedClass, NodeMessage)
               ELSE Return("breadth_first_search", <<start>>,
                           Returned(breadth_first_search(adjacency_list, start)))
    /\ UNCHANGED <<adjacency_list, directed, frame>>

FindShortestPath(start, end) ==
    /\ Ready
    /\ last' = IF find_shortest_path_raises(adjacency_list, start, end)
               THEN Raise("find_shortest_path", <<start, end>>, RaisedClass, PathMessage)
               ELSE Return("find_shortest_path", <<start, end>>,
                           find_shortest_path(adjacency_list, start, end))
    /\ UNCHANGED <<adjacency_list, directed, frame>>

Query ==
    \/ \E node \in Node : HasNode(node)
    \/ \E node1, node2 \in Node : HasEdge(node1, node2)
    \/ \E node \in Node : Indegree(node)
    \/ \E node \in Node : Outdegree(node)
    \/ \E node \in Node : GetNeighbors(node)
    \/ \E start \in Node : DepthFirstSearch(start)
    \/ \E start \in Node : BreadthFirstSearch(start)
    \/ \E start, end \in Node : FindShortestPath(start, end)

\* The caller takes the result of the call it made
Resume ==
    /\ ~Ready
    /\ frame.pc = "none"
    /\ last' = Idle
    /\ UNCHANGED <<adjacency_list, directed, frame>>

Next ==
    \/ Mutation
    \/ Query
    \/ Resume

Spec == Init /\ [][Next]_vars

-----------------------------------------------------------------------------
(* The caller and the list get_neighbors returns *)

\* get_neighbors returns self.adjacency_list.get(node, []): for a present
\* node that is the dict's own list object, not a copy.  What the caller can
\* make of it with list.append, list.remove and list.reverse:
CallerEdits(lst) ==
    {Append(lst, x) : x \in Node}
        \cup {ListRemove(lst, lst[i]) : i \in 1..Len(lst)}
        \cup {Reversed(lst)}

\* The caller edits the list it was handed; the dict's entry is that list.
\* Lists are kept to NumNodes elements to keep the graphs finite.
CallerMutatesReturned ==
    /\ last.op = "get_neighbors"
    /\ last.exc = NoException
    /\ \E new \in CallerEdits(last.ret[1]) :
          /\ new # last.ret[1]
          /\ Len(new) <= NumNodes
          /\ adjacency_list' = [adjacency_list EXCEPT ![last.args[1]] = new]
          /\ last' = Return("mutate_returned", <<last.args[1]>>, Returned(new))
    /\ UNCHANGED <<directed, frame>>

NextAlias ==
    \/ \E node \in Node : GetNeighbors(node)
    \/ CallerMutatesReturned
    \/ Resume

SpecAlias == Init /\ [][NextAlias]_vars

-----------------------------------------------------------------------------
(* The traversals, one iteration of the while loop at a time *)

\* A call that has started and not yet returned, as last shows it
Running(op, args) ==
    [op |-> op, args |-> args, exc |-> "pending", msg |-> "", ret |-> None]

\* One iteration of depth_first_search's while loop that leaves out
\* visited.append(current)
dfs_step_never_marks(adj, f) ==
    LET current == f.stack[Len(f.stack)]
        rest    == SubSeq(f.stack, 1, Len(f.stack) - 1)
    IN  IF ~In(current, f.visited)
        THEN [f EXCEPT !.stack = rest \o Unvisited(Reversed(DictGet(adj, current)),
                                                   f.visited)]
        ELSE [f EXCEPT !.stack = rest]

\* One iteration of depth_first_search's while loop, for a non-empty stack
dfs_step(adj, f) ==
    LET current == f.stack[Len(f.stack)]
        rest    == SubSeq(f.stack, 1, Len(f.stack) - 1)
    IN  IF ~In(current, f.visited)
        THEN LET visited2 == Append(f.visited, current)
             IN  [f EXCEPT !.visited = visited2,
                           !.stack = rest \o Unvisited(Reversed(DictGet(adj, current)),
                                                       visited2)]
        ELSE [f EXCEPT !.stack = rest]

\* One iteration of breadth_first_search's while loop, for a non-empty queue
bfs_step(adj, f) ==
    LET current == Head(f.queue)
        rest    == Tail(f.queue)
    IN  IF ~In(current, f.visited)
        THEN LET visited2 == Append(f.visited, current)
             IN  [f EXCEPT !.visited = visited2,
                           !.queue = rest \o Unvisited(DictGet(adj, current), visited2)]
        ELSE [f EXCEPT !.queue = rest]

\* One iteration of find_shortest_path's while loop that does not return:
\* the for loop over the neighbours of the dequeued node
fsp_step(adj, f) ==
    LET path == Head(f.fsp_queue)[2]
        r    == fsp_scan(DictGet(adj, Head(f.fsp_queue)[1]), path,
                         f.fsp_visited, Tail(f.fsp_queue))
    IN  [f EXCEPT !.fsp_visited = r.visited, !.fsp_queue = r.queue]

\* The calls: the check, then the locals as set before the loop
CallDepthFirstSearch(start) ==
    /\ Ready
    /\ frame.pc = "none"
    /\ IF depth_first_search_raises(adjacency_list, start)
       THEN /\ last' = Raise("depth_first_search", <<start>>, RaisedClass, NodeMessage)
            /\ frame' = NoFrame
       ELSE /\ last' = Running("depth_first_search", <<start>>)
            /\ frame' = [NoFrame EXCEPT !.pc = "depth_first_search",
                                        !.args = <<start>>,
                                        !.stack = <<start>>]
    /\ UNCHANGED <<adjacency_list, directed>>

CallBreadthFirstSearch(start) ==
    /\ Ready
    /\ frame.pc = "none"
    /\ IF breadth_first_search_raises(adjacency_list, start)
       THEN /\ last' = Raise("breadth_first_search", <<start>>, RaisedClass, NodeMessage)
            /\ frame' = NoFrame
       ELSE /\ last' = Running("breadth_first_search", <<start>>)
            /\ frame' = [NoFrame EXCEPT !.pc = "breadth_first_search",
                                        !.args = <<start>>,
                                        !.queue = <<start>>]
    /\ UNCHANGED <<adjacency_list, directed>>

CallFindShortestPath(start, end) ==
    /\ Ready
    /\ frame.pc = "none"
    /\ IF find_shortest_path_raises(adjacency_list, start, end)
       THEN /\ last' = Raise("find_shortest_path", <<start, end>>, RaisedClass, PathMessage)
            /\ frame' = NoFrame
       ELSE /\ last' = Running("find_shortest_path", <<start, end>>)
            /\ frame' = [NoFrame EXCEPT !.pc = "find_shortest_path",
                                        !.args = <<start, end>>,
                                        !.fsp_visited = {start},
                                        !.fsp_queue = << <<start, <<start>> >> >>]
    /\ UNCHANGED <<adjacency_list, directed>>

\* while stack: ... ; return visited
StepDepthFirstSearch ==
    /\ frame.pc = "depth_first_search"
    /\ IF frame.stack # <<>>
       THEN /\ frame' = dfs_step(adjacency_list, frame)
            /\ UNCHANGED last
       ELSE /\ last' = Return(frame.pc, frame.args, Returned(frame.visited))
            /\ frame' = NoFrame
    /\ UNCHANGED <<adjacency_list, directed>>

\* while queue: ... ; return visited
StepBreadthFirstSearch ==
    /\ frame.pc = "breadth_first_search"
    /\ IF frame.queue # <<>>
       THEN /\ frame' = bfs_step(adjacency_list, frame)
            /\ UNCHANGED last
       ELSE /\ last' = Return(frame.pc, frame.args, Returned(frame.visited))
            /\ frame' = NoFrame
    /\ UNCHANGED <<adjacency_list, directed>>

\* while queue: if current == end: return path; ... ; return None
StepFindShortestPath ==
    /\ frame.pc = "find_shortest_path"
    /\ IF frame.fsp_queue = <<>>
       THEN /\ last' = Return(frame.pc, frame.args, None)
            /\ frame' = NoFrame
       ELSE IF Head(frame.fsp_queue)[1] = frame.args[2]
       THEN /\ last' = Return(frame.pc, frame.args, Returned(Head(frame.fsp_queue)[2]))
            /\ frame' = NoFrame
       ELSE /\ frame' = fsp_step(adjacency_list, frame)
            /\ UNCHANGED last
    /\ UNCHANGED <<adjacency_list, directed>>

\* The interpreter runs the loop of the call in progress
Step ==
    \/ StepDepthFirstSearch
    \/ StepBreadthFirstSearch
    \/ StepFindShortestPath

NextSteps ==
    \/ Mutation
    \/ \E start \in Node : CallDepthFirstSearch(start)
    \/ \E start \in Node : CallBreadthFirstSearch(start)
    \/ \E start, end \in Node : CallFindShortestPath(start, end)
    \/ Step
    \/ Resume

\* A call in progress keeps running: nothing else in the program can run
\* while it does
SpecSteps == Init /\ [][NextSteps]_vars /\ WF_vars(Step)

-----------------------------------------------------------------------------
(* Graphs wide enough for two shortest paths *)

\* Two paths of the same least length between two nodes need four nodes.
\* These graphs are constructed from up to MaxPathEdges edges over PathNodes
\* and then only queried by find_shortest_path.
NumPathNodes == 4
MaxPathEdges == 4
PathNodes == 1..NumPathNodes
PathEdgeLists == UNION {[1..n -> PathNodes \X PathNodes] : n \in 0..MaxPathEdges}

InitPaths ==
    \E edges \in PathEdgeLists, d \in BOOLEAN :
        /\ directed = d
        /\ adjacency_list = init_edges(EmptyDict, d, edges)
        /\ last = Return("__init__", edges, None)
        /\ frame = NoFrame

NextPaths ==
    \/ \E start, end \in PathNodes : FindShortestPath(start, end)
    \/ Resume

SpecPaths == InitPaths /\ [][NextPaths]_vars

-----------------------------------------------------------------------------
(* Properties *)

\* The last call, for the properties below
Called(rec, op) == rec.op = op
Succeeded(rec, op) == rec.op = op /\ rec.exc = NoException
Failed(rec, op) == rec.op = op /\ rec.exc # NoException

\* lst with every occurrence of x filtered out, the others in order
Without(lst, x) == SelectSeq(lst, LAMBDA n : n # x)

\* No list holds a node twice
NoDuplicates(adj) ==
    \A k \in DOMAIN adj : \A i, j \in 1..Len(adj[k]) : adj[k][i] = adj[k][j] => i = j

\* C1: in an undirected graph, after construction and after every call,
\* whenever B is in A's neighbour list, A is in B's neighbour list.
C1_UndirectedSymmetric ==
    ~directed =>
        \A a \in DOMAIN adjacency_list : \A b \in Node :
            In(b, adjacency_list[a]) =>
                b \in DOMAIN adjacency_list /\ In(a, adjacency_list[b])

\* C1 witness: an undirected graph with a self-loop and an edge between two
\* distinct nodes, right after a remove_edge that succeeded.
C1_Witness ==
    /\ ~directed
    /\ Succeeded(last, "remove_edge")
    /\ \E a, b \in DOMAIN adjacency_list :
          a # b /\ In(b, adjacency_list[a]) /\ In(a, adjacency_list[a])

\* C2: no neighbour list ever holds the same node twice, in either mode, and
\* an add_edge(a,b) made when the edge (a,b) is already there leaves every
\* neighbour list, and the node set, as they were.
C2_NoDuplicatesIdempotent ==
    /\ [](NoDuplicates(adjacency_list))
    /\ [][(/\ Called(last', "add_edge")
           /\ has_edge(adjacency_list, last'.args[1], last'.args[2]))
          => adjacency_list' = adjacency_list]_vars

\* C2 witness: add_edge(a,b) has just been called on a graph that holds the
\* edge (a,b), a list of more than one neighbour among its lists.
C2_Witness ==
    /\ Called(last, "add_edge")
    /\ EdgeCount(adjacency_list, directed) = MaxEdges
    /\ has_edge(adjacency_list, last.args[1], last.args[2])
    /\ Len(adjacency_list[last.args[1]]) > 1
    /\ IndexOf(last.args[2], adjacency_list[last.args[1]]) = 1

\* C3: after remove_node(x) on a present x, x is no node, no remaining node
\* has an edge to x, and every remaining node keeps its neighbour list with x
\* filtered out and nothing else changed.
C3_RemoveNode ==
    [][Succeeded(last', "remove_node") =>
        LET x == last'.args[1]
        IN  /\ has_node(adjacency_list, x)
            /\ ~has_node(adjacency_list', x)
            /\ DOMAIN adjacency_list' = (DOMAIN adjacency_list) \ {x}
            /\ \A y \in DOMAIN adjacency_list' :
                  /\ ~has_edge(adjacency_list', y, x)
                  /\ ~In(x, adjacency_list'[y])
                  /\ adjacency_list'[y] = Without(adjacency_list[y], x)]_vars

\* C3 witness: remove_node(x) has succeeded and left at least two nodes, one
\* of which still has a neighbour.
C3_Witness ==
    /\ Succeeded(last, "remove_node")
    /\ Cardinality(DOMAIN adjacency_list) >= 2
    /\ \E y \in DOMAIN adjacency_list : Len(adjacency_list[y]) > 0

\* C4: in a directed graph, right after add_edge(a,b) the edge (a,b) is
\* there; add_edge(a,b) with a # b leaves b's list as it was; and an edge
\* (x,y) is there only if the constructor's list held it or it came into
\* being by the call add_edge(x,y), and it is gone once removed.
C4_DirectedOnlyExplicit ==
    /\ (directed /\ Called(last, "__init__")) =>
          \A x, y \in Node :
              has_edge(adjacency_list, x, y) => In(<<x, y>>, last.args)
    /\ [][directed =>
           /\ Called(last', "add_edge") =>
                 LET a == last'.args[1]
                     b == last'.args[2]
                 IN  /\ has_edge(adjacency_list', a, b)
                     /\ a # b => DictGet(adjacency_list', b) = DictGet(adjacency_list, b)
           /\ \A x, y \in Node :
                 (has_edge(adjacency_list', x, y) /\ ~has_edge(adjacency_list, x, y))
                     => (Called(last', "add_edge") /\ last'.args = <<x, y>>)
           /\ Succeeded(last', "remove_edge") =>
                 ~has_edge(adjacency_list', last'.args[1], last'.args[2])]_vars

\* C4 witness: a directed graph right after add_edge(a,b), a # b, on a graph
\* where b already had neighbours, with no edge (b,a).
C4_Witness ==
    /\ directed
    /\ Called(last, "add_edge")
    /\ last.args[1] # last.args[2]
    /\ has_edge(adjacency_list, last.args[1], last.args[2])
    /\ ~has_edge(adjacency_list, last.args[2], last.args[1])
    /\ Len(adjacency_list[last.args[2]]) > 0

\* C5: a remove_node or remove_edge that raises leaves the node set and every
\* neighbour list, order included, as they were before the call.
C5_FailureLeavesState ==
    [][(Failed(last', "remove_node") \/ Failed(last', "remove_edge"))
          => (adjacency_list' = adjacency_list /\ directed' = directed)]_vars

\* C5 witness: remove_edge(a,b) has raised on a graph with edges where a is
\* no node.
C5_Witness ==
    /\ Failed(last, "remove_edge")
    /\ ~has_node(adjacency_list, last.args[1])
    /\ EdgeCount(adjacency_list, directed) > 0

\* The methods that want a present node, find_shortest_path apart
NodeMethods ==
    {"remove_node", "indegree", "outdegree", "get_neighbors",
     "depth_first_search", "breadth_first_search"}

\* The kind of an error, as a caller can tell it: the class of the exception
ErrorKind(rec) == rec.exc

C7_RemoveEdge ==
    [][Called(last', "remove_edge") =>
        LET a == last'.args[1]
            b == last'.args[2]
        IN  /\ Failed(last', "remove_edge") <=>
                  \/ a \notin DOMAIN adjacency_list
                  \/ b \notin DOMAIN adjacency_list
                  \/ ~In(b, adjacency_list[a])
            /\ Succeeded(last', "remove_edge") =>
                  /\ ~has_edge(adjacency_list', a, b)
                  /\ ~directed => ~has_edge(adjacency_list', b, a)
                  /\ DOMAIN adjacency_list' = DOMAIN adjacency_list
                  /\ adjacency_list'[a] = Without(adjacency_list[a], b)
                  /\ a # b => adjacency_list'[b] =
                        IF directed THEN adjacency_list[b]
                        ELSE Without(adjacency_list[b], a)
                  /\ \A k \in (DOMAIN adjacency_list) \ {a, b} :
                        adjacency_list'[k] = adjacency_list[k]]_vars

\* C7 witness: in a directed graph remove_edge(a,b), a # b, has succeeded
\* while b's list holds a, so the edge (b,a) is still there.
C7_Witness ==
    /\ directed
    /\ Succeeded(last, "remove_edge")
    /\ last.args[1] # last.args[2]
    /\ has_edge(adjacency_list, last.args[2], last.args[1])

\* Reachability and distance, by sets of nodes and not by any traversal:
\* Within(adj, s, k) is the set of nodes at most k edges away from s
RECURSIVE Within(_, _, _)
Within(adj, s, k) ==
    IF k = 0 THEN {s}
    ELSE LET W == Within(adj, s, k - 1)
         IN  W \cup {n \in Node : \E m \in W : has_edge(adj, m, n)}

Reach(adj, s) == Within(adj, s, Cardinality(DOMAIN adj))
Reachable(adj, s, e) == e \in Reach(adj, s)

\* The least number of edges of a path from s to e, for e reachable from s
Dist(adj, s, e) ==
    CHOOSE k \in 0..Cardinality(DOMAIN adj) :
        /\ e \in Within(adj, s, k)
        /\ \A j \in 0..(k - 1) : e \notin Within(adj, s, j)

\* path runs from s to e along edges of the graph
IsPath(adj, path, s, e) ==
    /\ Len(path) >= 1
    /\ path[1] = s
    /\ path[Len(path)] = e
    /\ \A i \in 1..(Len(path) - 1) : has_edge(adj, path[i], path[i + 1])

\* C8: for present start and end with end reachable from start,
\* find_shortest_path returns a sequence that begins with start, ends with
\* end, steps along edges, and has as many edges as the distance from start
\* to end.
C8_ShortestPath ==
    (/\ Succeeded(last, "find_shortest_path")
     /\ Reachable(adjacency_list, last.args[1], last.args[2]))
    => /\ last.ret # None
       /\ IsPath(adjacency_list, last.ret[1], last.args[1], last.args[2])
       /\ Len(last.ret[1]) - 1 = Dist(adjacency_list, last.args[1], last.args[2])

\* C8 witness: find_shortest_path has returned a path of two edges although
\* start has two neighbours and the graph holds the most edges the model
\* allows.
C8_Witness ==
    /\ Succeeded(last, "find_shortest_path")
    /\ last.ret # None
    /\ Len(last.ret[1]) = 3
    /\ Len(adjacency_list[last.args[1]]) >= 2
    /\ EdgeCount(adjacency_list, directed) = MaxEdges

\* C9: for present nodes find_shortest_path returns None exactly when end is
\* not reachable from start, and find_shortest_path(a,a) returns [a] whether
\* or not a has a self-loop or any edge.
C9_NoPathIffUnreachable ==
    Succeeded(last, "find_shortest_path") =>
        /\ last.ret = None <=> ~Reachable(adjacency_list, last.args[1], last.args[2])
        /\ last.args[1] = last.args[2] => last.ret = Returned(<<last.args[1]>>)

\* C9 witness: find_shortest_path(a,b) has returned None for two present
\* nodes, a with a neighbour and b reaching a.
C9_Witness ==
    /\ Succeeded(last, "find_shortest_path")
    /\ last.ret = None
    /\ Len(adjacency_list[last.args[1]]) > 0
    /\ Reachable(adjacency_list, last.args[2], last.args[1])

\* C9 witness, start = end: find_shortest_path(a,a) has returned for a node a
\* without a self-loop that lies on a cycle.
C9_WitnessSame ==
    /\ Succeeded(last, "find_shortest_path")
    /\ last.args[1] = last.args[2]
    /\ ~has_edge(adjacency_list, last.args[1], last.args[1])
    /\ \E n \in Node : n # last.args[1] /\ has_edge(adjacency_list, last.args[1], n)
                       /\ Reachable(adjacency_list, n, last.args[1])

\* The position in the result r of the node that first discovers v: the
\* earliest node of r that has v in its list
Parent(adj, r, v) ==
    CHOOSE p \in 1..Len(r) :
        /\ In(v, DictGet(adj, r[p]))
        /\ \A q \in 1..(p - 1) : ~In(v, DictGet(adj, r[q]))

\* u comes before v in breadth-first order: its discoverer comes first, or
\* they share the discoverer and u is the earlier in the discoverer's list
DiscoveredBefore(adj, r, u, v) ==
    LET pu == Parent(adj, r, u)
        pv == Parent(adj, r, v)
    IN  \/ pu < pv
        \/ pu = pv /\ IndexOf(u, adj[r[pu]]) < IndexOf(v, adj[r[pu]])

\* The graph of the scenario: undirected, edges (1,2), (2,3), (3,4), (1,4)
ScenarioGraph ==
    init_edges(EmptyDict, FALSE, << <<1, 2>>, <<2, 3>>, <<3, 4>>, <<1, 4>> >>)

C10_WitnessLayers ==
    /\ Succeeded(last, "breadth_first_search")
    /\ Len(last.ret[1]) >= 3
    /\ Dist(adjacency_list, last.args[1], last.ret[1][3]) = 2

\* The preorder of the recursive depth-first traversal: visit node, then
\* each neighbour in list order that is still unvisited when its turn comes
RECURSIVE Preorder(_, _, _)
RECURSIVE PreorderEach(_, _, _)
Preorder(adj, node, visited) ==
    PreorderEach(adj, DictGet(adj, node), Append(visited, node))
PreorderEach(adj, nbrs, visited) ==
    IF nbrs = <<>> THEN visited
    ELSE PreorderEach(adj, Tail(nbrs),
                      IF In(Head(nbrs), visited) THEN visited
                      ELSE Preorder(adj, Head(nbrs), visited))

\* The graph of the depth-first scenario: undirected, edges (1,2), (1,3), (2,4)
ScenarioTree ==
    init_edges(EmptyDict, FALSE, << <<1, 2>>, <<1, 3>>, <<2, 4>> >>)

\* C11: depth_first_search(start) on a present start returns the preorder of
\* the recursive depth-first traversal that takes each node's unvisited
\* neighbours in list order: every reachable node once, no other node; on the
\* scenario graph it returns [1,2,4,3] from 1.
C11_DepthFirstPreorder ==
    /\ depth_first_search(ScenarioTree, 1) = <<1, 2, 4, 3>>
    /\ Succeeded(last, "depth_first_search") =>
          LET r == last.ret[1]
              s == last.args[1]
          IN  /\ r = Preorder(adjacency_list, s, <<>>)
              /\ {r[i] : i \in 1..Len(r)} = Reach(adjacency_list, s)
              /\ \A i, j \in 1..Len(r) : r[i] = r[j] => i = j

\* C11 witness: depth_first_search has returned three nodes of a graph with a
\* cycle through start, the third a neighbour of both the first and the
\* second (so it was pushed twice), the second not first in numeric order.
C11_Witness ==
    /\ Succeeded(last, "depth_first_search")
    /\ Len(last.ret[1]) = 3
    /\ has_edge(adjacency_list, last.ret[1][1], last.ret[1][3])
    /\ has_edge(adjacency_list, last.ret[1][2], last.ret[1][3])
    /\ has_edge(adjacency_list, last.ret[1][3], last.ret[1][1])
    /\ last.ret[1][2] > last.ret[1][3]

\* C12: in an undirected graph indegree(n) equals outdegree(n) for every
\* present node n, self-loops included.
C12_UndirectedDegreesAgree ==
    ~directed =>
        /\ \A n \in DOMAIN adjacency_list :
              indegree(adjacency_list, n) = outdegree(adjacency_list, n)
        /\ Succeeded(last, "indegree") =>
              last.ret = Returned(outdegree(adjacency_list, last.args[1]))
        /\ Succeeded(last, "outdegree") =>
              last.ret = Returned(indegree(adjacency_list, last.args[1]))

\* C12 witness: in an undirected graph indegree(n) has returned 2 for a node
\* n with a self-loop and one other neighbour.
C12_Witness ==
    /\ ~directed
    /\ Succeeded(last, "indegree")
    /\ last.ret = Returned(2)
    /\ has_edge(adjacency_list, last.args[1], last.args[1])

\* Undirected lists mirror each other and every neighbour is a node
Symmetric(adj) ==
    \A a \in DOMAIN adj : \A i \in 1..Len(adj[a]) :
        adj[a][i] \in DOMAIN adj /\ In(a, adj[adj[a][i]])

\* C13 as stated: a caller that appends to, removes from or reorders the
\* sequence get_neighbors(node) returned leaves the graph's adjacency as it
\* was, and with it the graph's invariants: no duplicates, and symmetry in
\* undirected mode.
C13_CallerCannotCorrupt ==
    /\ [][Called(last', "mutate_returned") => adjacency_list' = adjacency_list]_vars
    /\ [](NoDuplicates(adjacency_list))
    /\ [](~directed => Symmetric(adjacency_list))

\* The nodes an edge list names
NodesOf(edges) == {edges[i][1] : i \in 1..Len(edges)} \cup {edges[i][2] : i \in 1..Len(edges)}

\* The neighbours an edge list gives node k under flag d
NeighboursIn(edges, d, k) ==
    {n \in Node : In(<<k, n>>, edges) \/ (~d /\ In(<<n, k>>, edges))}

\* The edge lists shorter than MaxCtorEdges from which __init__ constructs
\* adj under flag d: lists of edges of adj that name every node of adj
ConstructionsOf(adj, d) ==
    LET present == {e \in Edge : has_edge(adj, e[1], e[2])}
    IN  IF EdgeCount(adj, d) >= MaxCtorEdges THEN {}
        ELSE {E \in UNION {[1..n -> present] : n \in 0..(MaxCtorEdges - 1)} :
                 /\ NodesOf(E) = DOMAIN adj
                 /\ init_edges(EmptyDict, d, E) = adj}

\* C14: the graph constructed from an edge list E with flag d is the graph
\* reached from the empty graph with flag d by add_edge on each edge of E in
\* order: the empty list constructs the empty graph, and whenever the graph
\* is the one constructed from a list E shorter than MaxCtorEdges, the call
\* add_edge(a,b) leaves the one constructed from E followed by (a,b).  Repeated edges of E, and in
\* undirected mode an edge and its reverse, add no entry: each node's list
\* is as long as the set of its neighbours in E.
C14_ConstructorIsAddEdgeSequence ==
    /\ [](Called(last, "__init__") =>
            /\ last.args = <<>> => adjacency_list = EmptyDict
            /\ DOMAIN adjacency_list = NodesOf(last.args)
            /\ \A k \in DOMAIN adjacency_list :
                  Len(adjacency_list[k])
                     = Cardinality(NeighboursIn(last.args, directed, k)))
    /\ [][Called(last', "add_edge") =>
            \A E \in ConstructionsOf(adjacency_list, directed) :
                adjacency_list'
                   = init_edges(EmptyDict, directed, Append(E, last'.args))]_vars

\* C14 witness: an undirected graph constructed from a list that holds an
\* edge between two distinct nodes and then its reverse.
C14_Witness ==
    /\ ~directed
    /\ Called(last, "__init__")
    /\ Len(last.args) = 2
    /\ last.args[1][1] # last.args[1][2]
    /\ last.args[2] = <<last.args[1][2], last.args[1][1]>>

\* C14 witness, add_edge: add_edge has been called on a graph that some
\* non-empty edge list constructs, and left a graph that no shorter list
\* constructs.
C14_WitnessAddEdge ==
    /\ Called(last, "add_edge")
    /\ EdgeCount(adjacency_list, directed) = MaxCtorEdges
    /\ \E E \in EdgeLists :
          Len(E) = MaxCtorEdges /\ E[Len(E)] = last.args
             /\ adjacency_list = init_edges(EmptyDict, directed, E)

\* C16: add_edge(a,a) on a graph without the self-loop appends a to a's own
\* list, once, in both modes, and changes no other list; remove_edge(a,a) on
\* a graph with the self-loop returns without error, takes that one entry
\* away and changes no other list.
C16_SelfLoop ==
    [][\A a \in Node :
          /\ (Called(last', "add_edge") /\ last'.args = <<a, a>>
                /\ ~has_edge(adjacency_list, a, a))
                => /\ Succeeded(last', "add_edge")
                   /\ DOMAIN adjacency_list' = DOMAIN adjacency_list \cup {a}
                   /\ adjacency_list'[a] = Append(DictGet(adjacency_list, a), a)
                   /\ \A k \in DOMAIN adjacency_list \ {a} :
                         adjacency_list'[k] = adjacency_list[k]
          /\ (Called(last', "remove_edge") /\ last'.args = <<a, a>>
                /\ has_edge(adjacency_list, a, a))
                => /\ Succeeded(last', "remove_edge")
                   /\ DOMAIN adjacency_list' = DOMAIN adjacency_list
                   /\ adjacency_list'[a] = Without(adjacency_list[a], a)
                   /\ Len(adjacency_list'[a]) = Len(adjacency_list[a]) - 1
                   /\ \A k \in DOMAIN adjacency_list \ {a} :
                         adjacency_list'[k] = adjacency_list[k]]_vars

\* C16 witness: remove_edge(a,a) has returned on an undirected graph, and a
\* keeps a neighbour other than itself.
C16_Witness ==
    /\ ~directed
    /\ Succeeded(last, "remove_edge")
    /\ last.args[1] = last.args[2]
    /\ Len(adjacency_list[last.args[1]]) >= 1

\* C16 witness, add_edge: add_edge(a,a) has returned on an undirected graph
\* and a's list ends with a, after another neighbour.
C16_WitnessAddEdge ==
    /\ ~directed
    /\ Succeeded(last, "add_edge")
    /\ last.args[1] = last.args[2]
    /\ Len(adjacency_list[last.args[1]]) >= 2
    /\ adjacency_list[last.args[1]][Len(adjacency_list[last.args[1]])] = last.args[1]

\* The nodes of a list
Elements(lst) == {lst[i] : i \in 1..Len(lst)}

\* C18: in every reachable state every node in any neighbour list is a key
\* of the adjacency dict, so has_node holds for it, and every node in the
\* list depth_first_search or breadth_first_search has returned, and in the
\* path find_shortest_path has returned, satisfies has_node on the graph
\* the call ran on.
C18_Closure ==
    /\ \A k \in DOMAIN adjacency_list : \A n \in Elements(adjacency_list[k]) :
          has_node(adjacency_list, n)
    /\ \A op \in {"depth_first_search", "breadth_first_search", "find_shortest_path"} :
          (Succeeded(last, op) /\ last.ret # None)
             => \A n \in Elements(last.ret[1]) : has_node(adjacency_list, n)

\* C18 witness: on a graph that lacks a node and has an edge, a traversal
\* has returned a list of two nodes or more.
C18_Witness ==
    /\ DOMAIN adjacency_list # Node
    /\ \E k \in DOMAIN adjacency_list : adjacency_list[k] # <<>>
    /\ \E op \in {"depth_first_search", "breadth_first_search", "find_shortest_path"} :
          /\ Succeeded(last, op)
          /\ last.ret # None
          /\ Len(last.ret[1]) >= 2

\* C15: every node after the first on the path find_shortest_path returns
\* is preceded on the path by the node that first discovers it, the earliest
\* node in breadth-first order from start that has it in its list; so of
\* several shortest paths the one along the breadth-first tree is returned,
\* and on the scenario graph find_shortest_path(1,3) returns [1,2,3].
C15_TieBreak ==
    /\ find_shortest_path(ScenarioGraph, 1, 3) = Returned(<<1, 2, 3>>)
    /\ (Succeeded(last, "find_shortest_path") /\ last.ret # None) =>
          LET p == last.ret[1]
              r == breadth_first_search(adjacency_list, last.args[1])
          IN  \A i \in 2..Len(p) :
                 p[i - 1] = r[Parent(adjacency_list, r, p[i])]

\* C15 witness: find_shortest_path has returned a path of two edges or more
\* and the graph holds another path between the same nodes, as short.
C15_Witness ==
    /\ Succeeded(last, "find_shortest_path")
    /\ last.ret # None
    /\ Len(last.ret[1]) >= 3
    /\ \E q \in [1..Len(last.ret[1]) -> DOMAIN adjacency_list] :
          /\ q # last.ret[1]
          /\ IsPath(adjacency_list, q, last.args[1], last.args[2])

\* A bound on the iterations a running traversal has left: every iteration
\* takes one element off the stack or queue, and puts elements on only when
\* it marks a node (depth- and breadth-first: one node marked, at most its
\* whole list put on; find_shortest_path: as many put on as marked)
Measure(adj, f) ==
    LET K == Cardinality(DOMAIN adj)
    IN  CASE f.pc = "depth_first_search" ->
                (K - Len(f.visited)) * (K + 1) + Len(f.stack)
          [] f.pc = "breadth_first_search" ->
                (K - Len(f.visited)) * (K + 1) + Len(f.queue)
          [] f.pc = "find_shortest_path" ->
                (K - Cardinality(f.fsp_visited)) + Len(f.fsp_queue)
          [] OTHER -> 0

\* What the call that has run to its return gives, computed in one go
WholeRun(adj, op, args) ==
    CASE op = "depth_first_search" -> Returned(depth_first_search(adj, args[1]))
      [] op = "breadth_first_search" -> Returned(breadth_first_search(adj, args[1]))
      [] op = "find_shortest_path" -> find_shortest_path(adj, args[1], args[2])

\* C17: on every reachable graph and every present start (and end),
\* depth_first_search, breadth_first_search and find_shortest_path return:
\* no call stays in progress for ever (again and again none is running),
\* every iteration of its loop lowers a non-negative measure, and what it
\* returns is the result of the whole run.
C17_Terminates ==
    /\ []<>(frame.pc = "none")
    /\ [][(frame.pc # "none" /\ frame'.pc # "none")
             => /\ Measure(adjacency_list, frame') < Measure(adjacency_list, frame)
                /\ Measure(adjacency_list, frame') >= 0]_vars
    /\ [][(frame.pc # "none" /\ frame'.pc = "none")
             => last' = Return(frame.pc, frame.args,
                               WholeRun(adjacency_list, frame.pc, frame.args))]_vars

\* C17 witness: depth_first_search is running on a graph where start lies
\* on a cycle, with one node on the stack twice.
C17_Witness ==
    /\ frame.pc = "depth_first_search"
    /\ \E n \in Node : /\ has_edge(adjacency_list, frame.args[1], n)
                       /\ Reachable(adjacency_list, n, frame.args[1])
    /\ \E i, j \in 1..Len(frame.stack) : i < j /\ frame.stack[i] = frame.stack[j]

\* C17 witness, return: a traversal has returned on a graph with a self-loop
\* and a cycle through two nodes.
C17_WitnessReturned ==
    /\ frame.pc = "none"
    /\ \E op \in {"depth_first_search", "breadth_first_search", "find_shortest_path"} :
          Succeeded(last, op)
    /\ \E a \in Node : has_edge(adjacency_list, a, a)
    /\ \E a, b \in Node :
          a # b /\ has_edge(adjacency_list, a, b) /\ has_edge(adjacency_list, b, a)

=============================================================================
